---- MODULE Spec2Model ----
(***************************************************************************)
(* pdb-intersect: lib_peeringdb.py (address normaliser, prefix resolver)   *)
(* and pdb-intersect.py (notes filter, ixlan intersector).                 *)
(*                                                                         *)
(* Python str values are sequences of one-character strings, so that       *)
(* split / join / re.sub work on the text itself.  Python None is the      *)
(* empty sequence and a present value x is <<x>> where the two have to be  *)
(* told apart.                                                             *)
(***************************************************************************)
EXTENDS Integers, Sequences, FiniteSets, TLC

VARIABLES op, arg, outcome, queries, tab

vars == <<op, arg, outcome, queries, tab>>

None == <<>>

Return(v) == [kind |-> "return", exc |-> "", val |-> v]

Raise(e) == [kind |-> "raise", exc |-> e, val |-> None]

(***************************************************************************)
(* str methods and the two regular expressions of lib_peeringdb.py         *)
(***************************************************************************)

\* str.split(sep): the parts between the occurrences of sep, n+1 parts for n
\* separators, empty parts kept
RECURSIVE split(_, _)
split(s, sep) ==
    IF \A i \in 1..Len(s) : s[i] # sep
    THEN <<s>>
    ELSE LET k == CHOOSE i \in 1..Len(s) :
                      s[i] = sep /\ \A j \in 1..(i - 1) : s[j] # sep
         IN  <<SubSeq(s, 1, k - 1)>> \o split(SubSeq(s, k + 1, Len(s)), sep)

\* sep.join(parts)
RECURSIVE join(_, _)
join(parts, sep) ==
    IF Len(parts) = 0 THEN <<>>
    ELSE IF Len(parts) = 1 THEN parts[1]
    ELSE parts[1] \o sep \o join(Tail(parts), sep)

\* re.sub("^0*", "", i) and re.sub("^0+", "", part): the leading "0"s go
RECURSIVE strip_leading_zeros(_)
strip_leading_zeros(s) ==
    IF Len(s) > 0 /\ s[1] = "0" THEN strip_leading_zeros(Tail(s)) ELSE s

\* str.startswith
startswith(s, p) == Len(p) <= Len(s) /\ SubSeq(s, 1, Len(p)) = p

\* the loop body of unexplode_ip on one component
unexplode_part(i) ==
    LET t == strip_leading_zeros(i) IN IF Len(t) = 0 THEN <<"0">> ELSE t

\* [unexplode_part(i) for i in ips]
unexplode_parts(ips) == [k \in 1..Len(ips) |-> unexplode_part(ips[k])]

\* a plausible slip: the empty result of the strip is not set back to "0"
unexplode_ip_noDefault(ip) ==
    LET dots == split(ip, ".")
        cols == split(ip, ":")
        strip(ps) == [k \in 1..Len(ps) |-> strip_leading_zeros(ps[k])]
    IN  IF Len(dots) = 4 THEN join(strip(dots), <<".">>)
        ELSE IF Len(cols) > 1 THEN join(strip(cols), <<":">>)
        ELSE ip

unexplode_ip(ip) ==
    LET dots == split(ip, ".")
        cols == split(ip, ":")
    IN  IF Len(dots) = 4 THEN join(unexplode_parts(dots), <<".">>)
        ELSE IF Len(cols) > 1 THEN join(unexplode_parts(cols), <<":">>)
        ELSE ip

(***************************************************************************)
(* The ipaddress library as lib_peeringdb.py uses it (CPython 3.11):       *)
(* ip_address, ip_network (strict), .exploded, .version and subnet_of.     *)
(* A failed parse (the library's ValueError) is version 0.  Scope ids and  *)
(* netmasks written as dotted quads are outside the texts modelled.        *)
(* Intermediate values are handed on as parameters, one step per           *)
(* definition.                                                             *)
(***************************************************************************)

HexDigits == <<"0", "1", "2", "3", "4", "5", "6", "7", "8", "9",
               "a", "b", "c", "d", "e", "f">>

DigitValue(c) == (CHOOSE i \in 1..16 : HexDigits[i] = c) - 1

IsDecimal(s) == \A i \in 1..Len(s) : \E k \in 1..10 : HexDigits[k] = s[i]

IsHex(s) == \A i \in 1..Len(s) : \E k \in 1..16 : HexDigits[k] = s[i]

\* int(s, base) of a text of digits
RECURSIVE int(_, _)
int(s, base) ==
    IF Len(s) = 0 THEN 0
    ELSE int(SubSeq(s, 1, Len(s) - 1), base) * base + DigitValue(s[Len(s)])

\* the value of a parsed component, -1 when it is above max
at_most(n, max) == IF n > max THEN -1 ELSE n

\* IPv4Address._parse_octet: -1 for the texts it rejects
parse_octet(s) ==
    IF Len(s) = 0 \/ ~IsDecimal(s) \/ Len(s) > 3 THEN -1
    ELSE IF s # <<"0">> /\ s[1] = "0" THEN -1
    ELSE at_most(int(s, 10), 255)

\* the parsed components, or <<>> when one of them was rejected
all_parsed(vals) == IF \E i \in 1..Len(vals) : vals[i] = -1 THEN <<>> ELSE vals

ipv4_from_octets(octets) ==
    IF Len(octets) # 4 THEN <<>>
    ELSE all_parsed([i \in 1..4 |-> parse_octet(octets[i])])

\* IPv4Address._ip_int_from_string, as the four octets; <<>> when rejected
ipv4_groups(text) == ipv4_from_octets(split(text, "."))

\* "%04x" of one group
hex4(g) == <<HexDigits[(g \div 4096) + 1], HexDigits[((g \div 256) % 16) + 1],
             HexDigits[((g \div 16) % 16) + 1], HexDigits[(g % 16) + 1]>>

\* IPv6Address._parse_hextet: -1 for the texts it rejects
parse_hextet(s) ==
    IF Len(s) = 0 \/ ~IsHex(s) \/ Len(s) > 4 THEN -1 ELSE int(s, 16)

\* the parts around "::" (hi before, lo after), zero groups between
ipv6_fill(parts, n, hi, lo) ==
    IF (parts[1] = <<>> /\ hi # 0) \/ (parts[n] = <<>> /\ lo # 0) THEN <<>>
    ELSE IF 8 - (hi + lo) < 1 THEN <<>>
    ELSE all_parsed([i \in 1..hi |-> parse_hextet(parts[i])]
                        \o [i \in 1..(8 - (hi + lo)) |-> 0]
                        \o [i \in 1..lo |-> parse_hextet(parts[n - lo + i])])

\* skip is the position of the empty part that "::" leaves
ipv6_compressed(parts, n, skip) ==
    ipv6_fill(parts, n,
              IF parts[1] = <<>> THEN skip - 2 ELSE skip - 1,
              IF parts[n] = <<>> THEN n - skip - 1 ELSE n - skip)

ipv6_skip(parts, n, empties) ==
    IF Cardinality(empties) > 1 THEN <<>>
    ELSE IF Cardinality(empties) = 1
    THEN ipv6_compressed(parts, n, CHOOSE i \in empties : TRUE)
    ELSE IF n # 8 THEN <<>>
    ELSE all_parsed([i \in 1..8 |-> parse_hextet(parts[i])])

ipv6_from_parts(parts) ==
    IF Len(parts) > 9 THEN <<>>
    ELSE ipv6_skip(parts, Len(parts),
                   {i \in 2..(Len(parts) - 1) : parts[i] = <<>>})

\* an IPv4 suffix is replaced by the two groups it stands for
ipv6_embed(raw, tail4) ==
    IF tail4 = <<>> THEN <<>>
    ELSE SubSeq(raw, 1, Len(raw) - 1)
             \o <<hex4(tail4[1] * 256 + tail4[2]), hex4(tail4[3] * 256 + tail4[4])>>

ipv6_from_raw(raw) ==
    IF Len(raw) < 3 THEN <<>>
    ELSE IF \E i \in 1..Len(raw[Len(raw)]) : raw[Len(raw)][i] = "."
    THEN ipv6_from_parts(ipv6_embed(raw, ipv4_groups(raw[Len(raw)])))
    ELSE ipv6_from_parts(raw)

\* IPv6Address._ip_int_from_string, as the eight groups; <<>> when rejected
ipv6_groups(text) == ipv6_from_raw(split(text, ":"))

NoAddress == [version |-> 0, groups |-> <<>>, prefixlen |-> 0]

address6(v6) ==
    IF v6 # <<>> THEN [version |-> 6, groups |-> v6, prefixlen |-> 128]
    ELSE NoAddress

address4_or_6(v4, text) ==
    IF v4 # <<>> THEN [version |-> 4, groups |-> v4, prefixlen |-> 32]
    ELSE address6(ipv6_groups(text))

\* ipaddress.ip_address(text): IPv4Address first, then IPv6Address
ip_address(text) == address4_or_6(ipv4_groups(text), text)

\* the bits of group i (1-based, w bits wide) that a prefix of length len covers
covered(len, i, w) ==
    IF len >= i * w THEN w
    ELSE IF len <= (i - 1) * w THEN 0
    ELSE len - (i - 1) * w

\* strict: a network text with a bit set after the first len bits is rejected
strict_network(version, groups, len, w) ==
    IF \A i \in 1..Len(groups) : groups[i] % (2 ^ (w - covered(len, i, w))) = 0
    THEN [version |-> version, groups |-> groups, prefixlen |-> len]
    ELSE NoAddress

\* len is the prefix length, or -1 when the text has no "/"
network6(v6, len) ==
    IF v6 # <<>> /\ len <= 128
    THEN strict_network(6, v6, IF len = -1 THEN 128 ELSE len, 16)
    ELSE NoAddress

network4_or_6(v4, addr, len) ==
    IF v4 # <<>> /\ len <= 32
    THEN strict_network(4, v4, IF len = -1 THEN 32 ELSE len, 8)
    ELSE network6(ipv6_groups(addr), len)

network_of_halves(halves) ==
    IF Len(halves) > 2 THEN NoAddress
    ELSE IF Len(halves) = 1
    THEN network4_or_6(ipv4_groups(halves[1]), halves[1], -1)
    ELSE IF Len(halves[2]) = 0 \/ ~IsDecimal(halves[2]) THEN NoAddress
    ELSE network4_or_6(ipv4_groups(halves[1]), halves[1], int(halves[2], 10))

\* ipaddress.ip_network(text), strict: IPv4Network first, then IPv6Network;
\* the suffix after "/" is a prefix length in decimal digits
ip_network(text) == network_of_halves(split(text, "/"))

\* IPv6Address.exploded
exploded(a) == join([i \in 1..8 |-> hex4(a.groups[i])], <<":">>)

\* the addresses of a and b agree on the bits b's prefix covers (groups of w bits)
same_prefix(a, b, w) ==
    \A i \in 1..Len(b.groups) :
        a.groups[i] \div (2 ^ (w - covered(b.prefixlen, i, w)))
            = b.groups[i] \div (2 ^ (w - covered(b.prefixlen, i, w)))

\* a.subnet_of(b) for a host network a (/32 or /128) and a network b of the same
\* version: b.network_address <= a.network_address <= b.broadcast_address
subnet_of(a, b) == same_prefix(a, b, IF b.version = 4 THEN 8 ELSE 16)

(***************************************************************************)
(* The directory (PeeringDB behind querypdb) and the prefix resolver       *)
(*                                                                         *)
(* pdb is the directory's content at the time of the call:                 *)
(*   pdb.ixpfx  sequence of [id, prefix, ixlan_id], in the order the       *)
(*              server lists them                                          *)
(*   pdb.ixlan  set of [id, ix_id]                                         *)
(*   pdb.ix     set of [id, name]                                          *)
(* A resolver operator yields [out, q]: how the call ended and the         *)
(* queries it sent, in order.                                              *)
(***************************************************************************)

\* the names lib_peeringdb.py binds at module level (imports, PDB_baseurl, defs)
ModuleNames ==
    {"json", "requests", "pprint", "ipaddress", "re", "PDB_baseurl",
     "pdb_set_credentials", "querypdb", "updatepdb",
     "pdb_org_tree_by_id", "pdb_net_tree_by_asn", "pdb_net_tree_by_asnlist",
     "pdb_ix_tree", "pdb_net_update", "pdb_net_by_id", "pdb_net_by_asn",
     "pdb_net_by_orgid", "pdb_net_by_orgid_and_name", "pdb_org_by_id",
     "pdb_poc_by_id", "pdb_poc_by_netid", "pdb_ix_by_id", "pdb_ixlan_by_id",
     "pdb_ixlan_by_ixid", "pdb_ixlan_by_ixpfxid", "pdb_ixlan_ALL",
     "pdb_netixlan_by_id", "pdb_netixlan_by_netid", "pdb_netixlan_by_asn",
     "pdb_ixpfx_by_id", "pdb_ixpfx_by_ixlanid", "getixpfxlist_by_partial",
     "pdb_ixpfx_ALL", "find_ixpfx_by_ixid", "one_ixp_by_ixpfx",
     "getixp_by_ipv4", "getixp_by_ipv6", "unexplode_ip", "getixp_by_ip",
     "first_data_object", "all_data_objects"}

\* a global name is looked up when the call is reached
NameBound(name) == name \in ModuleNames

\* the "data" list of a query by id: the record with that id, if any
data_by_id(table, id) ==
    IF \E r \in table : r.id = id
    THEN <<CHOOSE r \in table : r.id = id>>
    ELSE <<>>

\* /ixlan?id={id}
pdb_ixlan_by_id(pdb, id) == data_by_id(pdb.ixlan, id)

\* /ix?id={id}
pdb_ix_by_id(pdb, id) == data_by_id(pdb.ix, id)

\* /ixpfx?prefix__startswith={partial}: the stored prefixes whose text starts
\* with partial, in the server's order
getixpfxlist_by_partial(pdb, partial) ==
    SelectSeq(pdb.ixpfx, LAMBDA r : startswith(r.prefix, partial))

Query(fn, a) == [fn |-> fn, arg |-> a]

\* line 219: the first ix record, or falling off the end (None)
first_ix(ixp, q) ==
    IF Len(ixp) > 0 THEN [out |-> Return(<<ixp[1]>>), q |-> q]
    ELSE [out |-> Return(None), q |-> q]

\* lines 214-217: no ixlan, no answer; else the ix of the first ixlan
ix_of_ixlans(ixlans, q, pdb) ==
    IF Len(ixlans) = 0 THEN [out |-> Return(None), q |-> q]
    ELSE IF ~NameBound("getixp_by_id") THEN [out |-> Raise("NameError"), q |-> q]
    ELSE first_ix(pdb_ix_by_id(pdb, ixlans[1].ix_id),
                  Append(q, Query("getixp_by_id", ixlans[1].ix_id)))

\* one_ixp_by_ixpfx calls getixlan_by_id and getixp_by_id; were those names
\* bound to the /ixlan?id= and /ix?id= getters, the two hops would be these
one_ixp_by_ixpfx(ixpfx, pdb) ==
    IF ~NameBound("getixlan_by_id") THEN [out |-> Raise("NameError"), q |-> <<>>]
    ELSE ix_of_ixlans(pdb_ixlan_by_id(pdb, ixpfx.ixlan_id),
                      <<Query("getixlan_by_id", ixpfx.ixlan_id)>>, pdb)

\* "return getixp_by_ixpfx(ixpfx)", the last line of both getixp_by_ipv4 and
\* getixp_by_ipv6: the module binds one_ixp_by_ixpfx, not getixp_by_ixpfx
call_getixp_by_ixpfx(ixpfx, pdb) ==
    IF ~NameBound("getixp_by_ixpfx") THEN [out |-> Raise("NameError"), q |-> <<>>]
    ELSE one_ixp_by_ixpfx(ixpfx, pdb)

\* the scan "for ixpfx in data: ..." from element i on; current is the value
\* of the loop variable ixpfx so far (None before the first element).  Yields
\* the loop variable after the loop, or the exception that ended the loop.
RECURSIVE scan(_, _, _, _)
\* the loop body on data[i], whose prefix text parsed to net (version 0: not)
scan_body(data, i, hostnet, net) ==
    IF net.version = 0 THEN scan(data, i + 1, hostnet, <<data[i]>>)
    ELSE IF net.version # hostnet.version
    THEN [exc |-> "TypeError", ixpfx |-> <<data[i]>>]
    ELSE IF subnet_of(hostnet, net) THEN [exc |-> "", ixpfx |-> <<data[i]>>]
    ELSE scan(data, i + 1, hostnet, <<data[i]>>)

scan(data, i, hostnet, current) ==
    IF i > Len(data) THEN [exc |-> "", ixpfx |-> current]
    ELSE scan_body(data, i, hostnet, ip_network(data[i].prefix))

\* the queries of the whole call: the prefix query, then those of the hops
with_query(q0, r) == [out |-> r.out, q |-> q0 \o r.q]

\* lines 246-248 and 308-309: None when the loop variable is None, else resolve
after_scan(found, q0, pdb) ==
    IF found.exc # "" THEN [out |-> Raise(found.exc), q |-> q0]
    ELSE IF found.ixpfx = None THEN [out |-> Return(None), q |-> q0]
    ELSE with_query(q0, call_getixp_by_ixpfx(found.ixpfx[1], pdb))

\* lines 234-248 and 296-309: query, scan, resolve
lookup(partial, hostnet, pdb) ==
    after_scan(scan(getixpfxlist_by_partial(pdb, partial), 1, hostnet, None),
               <<Query("getixpfxlist_by_partial", partial)>>, pdb)

\* v4arr[0]+"."+v4arr[1]
v4partial_of(v4arr) == v4arr[1] \o <<".">> \o v4arr[2]

ipv4_lookup(v4net, v4arr, pdb) ==
    IF v4net.version = 0 THEN [out |-> Raise("ValueError"), q |-> <<>>]
    ELSE IF Len(v4arr) < 2 THEN [out |-> Raise("IndexError"), q |-> <<>>]
    ELSE lookup(v4partial_of(v4arr), v4net, pdb)

getixp_by_ipv4(v4, pdb) ==
    ipv4_lookup(ip_network(v4 \o <<"/", "3", "2">>), split(v4, "."), pdb)

\* v6arr back to front: the "0000" parts at the end are dropped
RECURSIVE drop_trailing_zero_quads(_)
drop_trailing_zero_quads(arr) ==
    IF Len(arr) > 0 /\ arr[Len(arr)] = <<"0", "0", "0", "0">>
    THEN drop_trailing_zero_quads(SubSeq(arr, 1, Len(arr) - 1))
    ELSE arr

\* the parts that are kept: leading zeros trimmed, an empty part set to "0"
shorten_parts(kept) == [k \in 1..Len(kept) |-> unexplode_part(kept[k])]

\* lines 273-292: the coarse key of an expanded address text
v6partial_of(v6full) ==
    join(shorten_parts(drop_trailing_zero_quads(SubSeq(split(v6full, ":"), 1, 6))),
         <<":">>)

ipv6_lookup(v6net, v6, pdb) ==
    IF v6net.version = 0 THEN [out |-> Raise("ValueError"), q |-> <<>>]
    ELSE lookup(v6partial_of(exploded(ip_address(v6))), v6net, pdb)

getixp_by_ipv6(v6, pdb) ==
    ipv6_lookup(ip_network(v6 \o <<"/", "1", "2", "8">>), v6, pdb)

by_version(version, ip, pdb) ==
    IF version = 0 THEN [out |-> Raise("ValueError"), q |-> <<>>]
    ELSE IF version = 4 THEN getixp_by_ipv4(ip, pdb)
    ELSE getixp_by_ipv6(ip, pdb)

normalized_lookup(ip, pdb) == by_version(ip_address(ip).version, ip, pdb)

getixp_by_ip(ip, pdb) == normalized_lookup(unexplode_ip(ip), pdb)

(***************************************************************************)
(* Inputs of the normaliser                                                *)
(***************************************************************************)

\* the components a text is made of: empty, "0", with and without leading zeros
Components == {<<>>, <<"0">>, <<"1">>, <<"0", "0">>, <<"0", "1">>, <<"1", "0">>}

Separators == {".", ":"}

MaxParts == 4

\* parts[1] seps[1] parts[2] ... seps[k-1] parts[k]
RECURSIVE Interleave(_, _)
Interleave(parts, seps) ==
    IF Len(parts) = 1 THEN parts[1]
    ELSE parts[1] \o <<seps[1]>> \o Interleave(Tail(parts), Tail(seps))

(***************************************************************************)
(* Inputs of the resolver: address texts and directory contents            *)
(***************************************************************************)

\* str(n) of a natural number
RECURSIVE str(_)
str(n) ==
    IF n < 10 THEN <<HexDigits[n + 1]>>
    ELSE str(n \div 10) \o <<HexDigits[(n % 10) + 1]>>

\* "%x" % n
RECURSIVE hex(_)
hex(n) ==
    IF n < 16 THEN <<HexDigits[n + 1]>>
    ELSE hex(n \div 16) \o <<HexDigits[(n % 16) + 1]>>

\* str.zfill(width)
RECURSIVE zfill(_, _)
zfill(s, width) == IF Len(s) >= width THEN s ELSE zfill(<<"0">> \o s, width)

\* dotted quad, every octet filled with zeros to width pad
V4Text(octets, pad) ==
    join([i \in 1..Len(octets) |-> zfill(str(octets[i]), pad)], <<".">>)

\* colon-separated groups, every group filled with zeros to width pad
V6Text(groups, pad) ==
    join([i \in 1..Len(groups) |-> zfill(hex(groups[i]), pad)], <<":">>)

Cidr(addr, len) == addr \o <<"/">> \o str(len)

\* 2001:de8:6:0:0:0:714:1, the address of the comment before getixp_by_ipv6
G2001 == <<8193, 3560, 6, 0, 0, 0, 1812, 1>>

\* 2001:de8:6::714:1, the same address in compressed form
Compressed2001 == V6Text(<<8193, 3560, 6>>, 1) \o <<":", ":">> \o V6Text(<<1812, 1>>, 1)

Address(text, version, groups) == [text |-> text, version |-> version, groups |-> groups]

\* the address texts given to getixp_by_ip, each with the address it denotes:
\* plain, zero-padded and compressed writings
AddressPool ==
    {Address(V4Text(<<1, 2, 3, 4>>, 1), 4, <<1, 2, 3, 4>>),
     Address(V4Text(<<1, 2, 3, 4>>, 3), 4, <<1, 2, 3, 4>>),
     Address(V4Text(<<1, 2, 9, 9>>, 1), 4, <<1, 2, 9, 9>>),
     Address(V6Text(G2001, 1), 6, G2001),
     Address(V6Text(G2001, 4), 6, G2001),
     Address(Compressed2001, 6, G2001),
     Address(V6Text(<<8193, 3560, 7, 0, 0, 0, 0, 1>>, 1), 6, <<8193, 3560, 7, 0, 0, 0, 0, 1>>),
     Address(V6Text(<<32, 0, 0, 0, 0, 0, 0, 1>>, 1), 6, <<32, 0, 0, 0, 0, 0, 0, 1>>)}

AddressTexts == {a.text : a \in AddressPool}

Ixpfx(id, prefix, lan) == [id |-> id, prefix |-> prefix, ixlan_id |-> lan]

\* stored prefixes: compressed, not zero-padded CIDR text, plus one record
\* whose text is no network (host bits set)
StoredPrefixes ==
    {Ixpfx(1, Cidr(V4Text(<<1, 2, 3, 0>>, 1), 24), 10),
     Ixpfx(2, Cidr(V4Text(<<1, 2, 0, 0>>, 1), 16), 20),
     Ixpfx(3, Cidr(V4Text(<<1, 0, 0, 0>>, 1), 8), 30),
     Ixpfx(4, Cidr(V4Text(<<1, 2, 3, 4>>, 1), 24), 40),
     Ixpfx(5, Cidr(V4Text(<<1, 20, 0, 0>>, 1), 16), 50),
     Ixpfx(6, Cidr(V6Text(<<8193, 3560, 6>>, 1) \o <<":", ":">>, 48), 60),
     Ixpfx(7, Cidr(V6Text(<<8193, 3560>>, 1) \o <<":", ":">>, 32), 70),
     Ixpfx(8, Cidr(V4Text(<<20, 1, 0, 0>>, 1), 16), 80)}

MaxStored == 3

\* the orders in which the server may list up to n of the stored prefixes
Listings(n) ==
    {t \in UNION {[1..k -> StoredPrefixes] : k \in 0..n} :
        \A i, j \in 1..Len(t) : i # j => t[i] # t[j]}

Lans == {r.ixlan_id : r \in StoredPrefixes}

IxOf(lan) == [id |-> lan + 1, name |-> lan + 1]

\* the referential chain behind the prefixes: intact, or a hop with no record
Chains == {"intact", "no_ixlan", "no_ix"}

Directory(listing, chain) ==
    [ixpfx |-> listing,
     ixlan |-> IF chain = "no_ixlan" THEN {}
               ELSE {[id |-> lan, ix_id |-> lan + 1] : lan \in Lans},
     ix    |-> IF chain = "no_ix" THEN {} ELSE {IxOf(lan) : lan \in Lans}]

(***************************************************************************)
(* pdb-intersect.py: the notes filter                                      *)
(***************************************************************************)

\* all_data_objects(obj): None for None, for a reply without "data" and for an
\* empty "data"; else a new list of the data objects
all_data_objects(obj) ==
    IF obj = None THEN None
    ELSE IF "data" \notin DOMAIN obj THEN None
    ELSE IF Len(obj.data) = 0 THEN None
    ELSE obj.data

\* text[p..] starts with the literal pat
occurs_at(text, pat, p) ==
    /\ p + Len(pat) - 1 <= Len(text)
    /\ SubSeq(text, p, p + Len(pat) - 1) = pat

\* re.match(".*" + pat + ".*", text) for a pattern of literal characters: pat
\* occurs after a stretch without "\n" ("." does not match a newline)
re_match_contains(pat, text) ==
    \E p \in 1..(Len(text) + 1) :
        /\ occurs_at(text, pat, p)
        /\ \A j \in 1..(p - 1) : text[j] # "\n"

\* list.remove(x): the first element equal to x goes
remove(list, x) ==
    SubSeq(list, 1, (CHOOSE k \in 1..Len(list) :
                         list[k] = x /\ \A j \in 1..(k - 1) : list[j] # x) - 1)
        \o SubSeq(list, (CHOOSE k \in 1..Len(list) :
                             list[k] = x /\ \A j \in 1..(k - 1) : list[j] # x) + 1,
                  Len(list))

\* "for net in nets: if not re.match(...): nets.remove(net)": the list iterator
\* is at index i (1-based) of the list as it is now
RECURSIVE filter_loop(_, _, _)
filter_loop(nets, i, pat) ==
    IF i > Len(nets) THEN nets
    ELSE IF ~re_match_contains(pat, nets[i].notes)
    THEN filter_loop(remove(nets, nets[i]), i + 1, pat)
    ELSE filter_loop(nets, i + 1, pat)

filter_nets(nets, pat) ==
    IF nets = None THEN None
    ELSE IF pat = None THEN nets
    ELSE filter_loop(nets, 1, pat[1])

\* reply is what pdb_net_by_orgid(orgid) returned; pat is None or <<pattern>>
get_all_net_for_orgid(reply, pat) == filter_nets(all_data_objects(reply), pat)

(***************************************************************************)
(* Inputs of the notes filter                                              *)
(***************************************************************************)

NotesPool == {<<>>, <<"a">>, <<"b">>, <<"b", "a">>, <<"\n", "a">>}

PatPool == {None, <<<<>>>>, << <<"a">> >>}

MaxNets == 3

\* the net objects of an organisation: distinct ids, any notes
NetLists(n) ==
    UNION {{[i \in 1..k |-> [id |-> i, notes |-> notes[i]]] :
                notes \in [1..k -> NotesPool]} : k \in 0..n}

Replies(n) ==
    {None, [meta |-> <<>>]} \cup {[meta |-> <<>>, data |-> nets] : nets \in NetLists(n)}

(***************************************************************************)
(* pdb-intersect.py: the ixlan intersector                                 *)
(***************************************************************************)

\* str() of a field that is a text or None
pystr(v) == IF v = None THEN <<"N", "o", "n", "e">> ELSE v[1]

\* "\n".join(["ASN:  "+str(ni['asn']), "IPv4: "+str(ni['ipaddr4']),
\*            "IPv6: "+str(ni['ipaddr6'])])
render_item(ni) ==
    join(<< <<"A", "S", "N", ":", " ", " ">> \o str(ni.asn),
            <<"I", "P", "v", "4", ":", " ">> \o pystr(ni.ipaddr4),
            <<"I", "P", "v", "6", ":", " ">> \o pystr(ni.ipaddr6) >>,
         <<"\n">>)

\* a slip of the grouping: the key's list is started anew for every attachment
bucket_add_overwrite(dict, netixlan) ==
    [k \in DOMAIN dict \cup {netixlan.ixlan_id} |->
        IF k = netixlan.ixlan_id THEN <<netixlan>> ELSE dict[k]]

\* one step of the grouping loop: the key gets an empty list when it is new, and
\* the attachment is appended to the key's list
bucket_add(dict, netixlan) ==
    [k \in DOMAIN dict \cup {netixlan.ixlan_id} |->
        IF k = netixlan.ixlan_id
        THEN Append(IF k \in DOMAIN dict THEN dict[k] ELSE <<>>, netixlan)
        ELSE dict[k]]

\* lines 123-131: the lookup dict built from the first i attachments
RECURSIVE by_ixlanid(_, _)
by_ixlanid(netixlans, i) ==
    IF i = 0 THEN <<>>
    ELSE bucket_add(by_ixlanid(netixlans, i - 1), netixlans[i])

\* lines 141-153: the row of one common ixlan
make_row(netixlans1, netixlans2) ==
    <<netixlans1[1].name,
      join([i \in 1..Len(netixlans1) |-> render_item(netixlans1[i])], <<"\n", "\n">>),
      join([i \in 1..Len(netixlans2) |-> render_item(netixlans2[i])], <<"\n", "\n">>)>>

\* the keys both dicts have
ixlans_common(dict1, dict2) == DOMAIN dict1 \cap DOMAIN dict2

\* a slip of the row loop: one row for every side-1 attachment of a common ixlan
RECURSIVE rows_per_attachment(_, _, _)
rows_per_attachment(order, dict1, dict2) ==
    IF Len(order) = 0 THEN <<>>
    ELSE [i \in 1..Len(dict1[order[1]]) |->
             make_row(<<dict1[order[1]][i]>>, dict2[order[1]])]
         \o rows_per_attachment(Tail(order), dict1, dict2)

\* lines 140-155: the rows added, the common ixlans taken in the given order
rows_for(order, dict1, dict2) ==
    [i \in 1..Len(order) |-> make_row(dict1[order[i]], dict2[order[i]])]

(***************************************************************************)
(* Inputs of the intersector                                               *)
(***************************************************************************)

Netixlan(lan, asn, ip4, ip6, name) ==
    [ixlan_id |-> lan, asn |-> asn, ipaddr4 |-> ip4, ipaddr6 |-> ip6, name |-> name]

\* two attachments at ixlan 5 under different names, one at 7, one at 9
Attachments ==
    {Netixlan(5, 100, <<V4Text(<<1, 2, 3, 4>>, 1)>>, None, <<"A">>),
     Netixlan(5, 200, None, <<V6Text(G2001, 1)>>, <<"B">>),
     Netixlan(7, 100, <<V4Text(<<1, 2, 9, 9>>, 1)>>, None, <<"C">>),
     Netixlan(9, 300, None, None, <<"D">>)}

MaxAttachA == 3

MaxAttachB == 2

AttachmentLists(n) == UNION {[1..k -> Attachments] : k \in 0..n}

\* the orders in which a set may be iterated
Orders(S) ==
    {t \in [1..Cardinality(S) -> S] : \A i, j \in 1..Cardinality(S) : i # j => t[i] # t[j]}

(***************************************************************************)
(* State                                                                   *)
(***************************************************************************)

Init ==
    /\ op = "none"
    /\ arg = None
    /\ outcome = Return(None)
    /\ queries = <<>>
    /\ tab = <<>>

\* the state after unexplode_ip(ip) returned
Normalized(ip) ==
    /\ op' = "unexplode_ip"
    /\ arg' = ip
    /\ outcome' = Return(unexplode_ip(ip))
    /\ UNCHANGED <<queries, tab>>

\* unexplode_ip(ip) on a text of 1..MaxParts components, each gap a "." or a
\* ":"; every call starts from the state after import
Call_unexplode_ip ==
    /\ op = "none"
    /\ \E k \in 1..MaxParts :
        \E parts \in [1..k -> Components], seps \in [1..(k - 1) -> Separators] :
            Normalized(Interleave(parts, seps))

\* unexplode_ip applied to the value the previous call returned
Call_unexplode_ip_again ==
    /\ op = "unexplode_ip"
    /\ op' = "unexplode_ip_again"
    /\ arg' = [first |-> arg, ip |-> outcome.val]
    /\ outcome' = Return(unexplode_ip(outcome.val))
    /\ UNCHANGED <<queries, tab>>

NextNormalizer == Call_unexplode_ip \/ Call_unexplode_ip_again

SpecNormalizer == Init /\ [][NextNormalizer]_vars

\* the state after getixp_by_ip(ip) against the directory pdb ended as r
Resolved(ip, pdb, r) ==
    /\ op' = "getixp_by_ip"
    /\ arg' = [ip |-> ip, pdb |-> pdb]
    /\ outcome' = r.out
    /\ queries' = r.q
    /\ UNCHANGED tab

\* getixp_by_ip(ip) against a directory
Call_getixp_by_ip ==
    /\ op = "none"
    /\ \E ip \in AddressTexts, listing \in Listings(MaxStored), chain \in Chains :
        Resolved(ip, Directory(listing, chain),
                 getixp_by_ip(ip, Directory(listing, chain)))

\* one_ixp_by_ixpfx(ixpfx) against a directory
Call_one_ixp_by_ixpfx ==
    /\ op = "none"
    /\ \E ixpfx \in StoredPrefixes, chain \in Chains :
        /\ op' = "one_ixp_by_ixpfx"
        /\ arg' = [ixpfx |-> ixpfx, pdb |-> Directory(<<ixpfx>>, chain)]
        /\ outcome' = one_ixp_by_ixpfx(ixpfx, Directory(<<ixpfx>>, chain)).out
        /\ queries' = one_ixp_by_ixpfx(ixpfx, Directory(<<ixpfx>>, chain)).q
        /\ UNCHANGED tab

NextResolver == Call_getixp_by_ip \/ Call_one_ixp_by_ixpfx

SpecResolver == Init /\ [][NextResolver]_vars

\* get_all_net_for_orgid(orgid, pat), the reply of pdb_net_by_orgid given
Call_get_all_net_for_orgid ==
    /\ op = "none"
    /\ \E reply \in Replies(MaxNets), pat \in PatPool :
        /\ op' = "get_all_net_for_orgid"
        /\ arg' = [reply |-> reply, pat |-> pat]
        /\ outcome' = Return(get_all_net_for_orgid(reply, pat))
        /\ UNCHANGED <<queries, tab>>

NextFilter == Call_get_all_net_for_orgid

SpecFilter == Init /\ [][NextFilter]_vars

\* the rows ixlan_intersect adds to the table, the set ixlans_common iterated
\* in the given order
Intersected(netixlan1, netixlan2, order) ==
    /\ op' = "ixlan_intersect"
    /\ arg' = [netixlan1 |-> netixlan1, netixlan2 |-> netixlan2]
    /\ tab' = tab \o rows_for(order, by_ixlanid(netixlan1, Len(netixlan1)),
                              by_ixlanid(netixlan2, Len(netixlan2)))
    /\ outcome' = Return(None)
    /\ UNCHANGED queries

\* ixlan_intersect(netixlan1, netixlan2): the rows go to the table tab, in the
\* order in which the set ixlans_common is iterated
Call_ixlan_intersect ==
    /\ op = "none"
    /\ \E netixlan1 \in AttachmentLists(MaxAttachA),
          netixlan2 \in AttachmentLists(MaxAttachB) :
        \E order \in Orders(ixlans_common(by_ixlanid(netixlan1, Len(netixlan1)),
                                          by_ixlanid(netixlan2, Len(netixlan2)))) :
            Intersected(netixlan1, netixlan2, order)

NextIntersector == Call_ixlan_intersect

SpecIntersector == Init /\ [][NextIntersector]_vars

Next ==
    \/ Call_unexplode_ip
    \/ Call_unexplode_ip_again
    \/ Call_getixp_by_ip
    \/ Call_one_ixp_by_ixpfx
    \/ Call_get_all_net_for_orgid
    \/ Call_ixlan_intersect

Spec == Init /\ [][Next]_vars

(***************************************************************************)
(* What the claims speak of, stated without the resolver                   *)
(***************************************************************************)

\* the address an input text denotes
Denoted(text) == CHOOSE a \in AddressPool : a.text = text

\* the host network of the address an input text denotes
HostNet(text) ==
    [version |-> Denoted(text).version, groups |-> Denoted(text).groups,
     prefixlen |-> IF Denoted(text).version = 4 THEN 32 ELSE 128]

WellFormed(r) == ip_network(r.prefix).version # 0

\* the prefix record's text is a network that contains the address
Contains(r, text) ==
    /\ WellFormed(r)
    /\ ip_network(r.prefix).version = HostNet(text).version
    /\ subnet_of(HostNet(text), ip_network(r.prefix))

Overlap(r1, r2) ==
    /\ ip_network(r1.prefix).version = ip_network(r2.prefix).version
    /\ \/ subnet_of(ip_network(r1.prefix), ip_network(r2.prefix))
       \/ subnet_of(ip_network(r2.prefix), ip_network(r1.prefix))

Items(seq) == {seq[i] : i \in 1..Len(seq)}

\* every stored prefix has its exchange-lan and that lan its exchange point
Linked(pdb) ==
    \A r \in Items(pdb.ixpfx) :
        \E l \in pdb.ixlan : l.id = r.ixlan_id /\ \E x \in pdb.ix : x.id = l.ix_id

\* the exchange point a prefix record leads to in an intact directory
ExchangeOf(r) == IxOf(r.ixlan_id)

\* the candidate list the prefix query of the call returned
Candidates == getixpfxlist_by_partial(arg.pdb, queries[1].arg)

Asked == op = "getixp_by_ip" /\ Len(queries) > 0

Matching == {i \in 1..Len(Candidates) : Contains(Candidates[i], arg.ip)}

\* C1: with pairwise non-overlapping, well-formed stored prefixes, each linked to
\* an exchange-lan and exchange point, and an address that lies in exactly one of
\* them, getixp_by_ip returns the exchange point of that prefix.
C1_ReturnsOwningExchange ==
    (/\ op = "getixp_by_ip"
     /\ Linked(arg.pdb)
     /\ \A r \in Items(arg.pdb.ixpfx) : WellFormed(r)
     /\ \A r1, r2 \in Items(arg.pdb.ixpfx) : r1 # r2 => ~Overlap(r1, r2)
     /\ Cardinality({r \in Items(arg.pdb.ixpfx) : Contains(r, arg.ip)}) = 1)
    => outcome = Return(<<ExchangeOf(CHOOSE r \in Items(arg.pdb.ixpfx) :
                                        Contains(r, arg.ip))>>)

\* C2: when the prefix query returned a candidate list and no candidate's
\* network contains the address, the resolver returns None.
C2_NotFoundWhenNoCandidateContains ==
    (Asked /\ Matching = {}) => outcome = Return(None)

\* C3: when two or more candidates contain the address, the resolver returns the
\* exchange point of the one that comes first in the returned order.
C3_FirstMatchWins ==
    (Asked /\ Linked(arg.pdb) /\ Cardinality(Matching) >= 2)
    => outcome = Return(<<ExchangeOf(Candidates[CHOOSE i \in Matching :
                                                    \A j \in Matching : i <= j])>>)

WithoutMalformed(pdb) ==
    [pdb EXCEPT !.ixpfx = SelectSeq(pdb.ixpfx, WellFormed)]

\* C4: a candidate whose prefix text is no network changes nothing: the call
\* ends as it does against the directory without the malformed records.
C4_MalformedCandidatesSkipped ==
    op = "getixp_by_ip"
    => outcome = getixp_by_ip(arg.ip, WithoutMalformed(arg.pdb)).out

\* the lan lookup and the exchange-point lookup among the queries of the call
HopQueries(fn) == {i \in 1..Len(queries) : queries[i].fn = fn}

\* C7: when a matching prefix is found and the lookup of its exchange-lan, or of
\* that lan's exchange point, returns no record, the resolver returns None and
\* raises nothing; without a lan record no exchange-point lookup is sent.
C7_BrokenChainIsNotFound ==
    (Asked /\ Matching # {} /\ (arg.pdb.ixlan = {} \/ arg.pdb.ix = {}))
    => /\ outcome = Return(None)
       /\ arg.pdb.ixlan = {} => HopQueries("getixp_by_id") = {}

RECURSIVE DropTrailingZeros(_)
DropTrailingZeros(groups) ==
    IF Len(groups) > 0 /\ groups[Len(groups)] = 0
    THEN DropTrailingZeros(SubSeq(groups, 1, Len(groups) - 1))
    ELSE groups

\* the coarse key of an address: the first two octets in decimal, or the first
\* six groups without the trailing zero groups, in hex without leading zeros
CoarseKey(a) ==
    IF a.version = 4 THEN V4Text(SubSeq(a.groups, 1, 2), 1)
    ELSE V6Text(DropTrailingZeros(SubSeq(a.groups, 1, 6)), 1)

\* C9: whatever the writing of the address (plain, zero-padded, compressed),
\* getixp_by_ip sends the coarse key of the address to the prefix query.
C9_CoarseKeyOfEveryWriting ==
    op = "getixp_by_ip"
    => /\ Len(queries) > 0
       /\ queries[1] = Query("getixpfxlist_by_partial", CoarseKey(Denoted(arg.ip)))

Fetched == arg.reply.data

\* C10: with a pattern, get_all_net_for_orgid returns exactly the fetched nets
\* whose notes match, in their original order.
C10_ExactlyTheMatchingNets ==
    (/\ op = "get_all_net_for_orgid"
     /\ arg.pat # None
     /\ all_data_objects(arg.reply) # None)
    => outcome = Return(SelectSeq(Fetched,
                                  LAMBDA net : re_match_contains(arg.pat[1], net.notes)))

LansOf(netixlans) == {netixlans[i].ixlan_id : i \in 1..Len(netixlans)}

CommonLans == LansOf(arg.netixlan1) \cap LansOf(arg.netixlan2)

At(netixlans, k) == SelectSeq(netixlans, LAMBDA ni : ni.ixlan_id = k)

\* the column that lists the attachments of one side at ixlan k, in their order
Column(netixlans, k) ==
    join([i \in 1..Len(At(netixlans, k)) |-> render_item(At(netixlans, k)[i])],
         <<"\n", "\n">>)

\* C5: ixlan_intersect ends without an error and adds exactly one row per ixlan
\* that occurs on both sides; every row is that of a common ixlan, so an ixlan on
\* one side only has no row, and without a common ixlan no row is added.
C5_OneRowPerCommonIxlan ==
    op = "ixlan_intersect"
    => /\ outcome = Return(None)
       /\ Len(tab) = Cardinality(CommonLans)
       /\ \A i \in 1..Len(tab) :
              \E k \in CommonLans : /\ tab[i][2] = Column(arg.netixlan1, k)
                                    /\ tab[i][3] = Column(arg.netixlan2, k)
       /\ \A i, j \in 1..Len(tab) : i # j => tab[i] # tab[j]

\* two attachments of side 1 at the one common ixlan, and an ixlan on one side only
C5_Witness ==
    /\ op = "ixlan_intersect"
    /\ Len(tab) = 1
    /\ \E k \in CommonLans : Len(At(arg.netixlan1, k)) = 2
    /\ LansOf(arg.netixlan2) \ LansOf(arg.netixlan1) # {}
    /\ LansOf(arg.netixlan1) \ LansOf(arg.netixlan2) # {}

\* C6: for every common ixlan k there is the row with the name of the first
\* side-1 attachment at k, all side-1 attachments at k in their order, and all
\* side-2 attachments at k in their order.
C6_RowContent ==
    op = "ixlan_intersect"
    => \A k \in CommonLans :
           \E i \in 1..Len(tab) :
               tab[i] = <<At(arg.netixlan1, k)[1].name,
                          Column(arg.netixlan1, k), Column(arg.netixlan2, k)>>

\* a common ixlan with two side-1 attachments under different names, next to
\* another common ixlan
C6_Witness ==
    /\ op = "ixlan_intersect"
    /\ Len(tab) = 2
    /\ \E k \in CommonLans :
           /\ Len(At(arg.netixlan1, k)) = 2
           /\ At(arg.netixlan1, k)[1].name # At(arg.netixlan1, k)[2].name

\* the components unexplode_ip works on: the four dot-separated ones, else the
\* colon-separated ones
ComponentsOf(text) ==
    IF Len(split(text, ".")) = 4 THEN split(text, ".") ELSE split(text, ":")

NoLeadingZero(c) == c # <<>> /\ (c[1] = "0" => c = <<"0">>)

Count(text, ch) == Cardinality({i \in 1..Len(text) : text[i] = ch})

SameSeparators(t1, t2) ==
    Count(t1, ".") = Count(t2, ".") /\ Count(t1, ":") = Count(t2, ":")

Separated(text) == Len(split(text, ".")) = 4 \/ Len(split(text, ":")) > 1

\* the texts C8 speaks of: four dot-separated components, colon-separated
\* components, or a single component (no separator at all)
InClaimedDomain(text) ==
    \/ Len(split(text, ".")) = 4
    \/ Len(split(text, ":")) > 1
    \/ (text # <<>> /\ Count(text, ".") = 0 /\ Count(text, ":") = 0)

\* C8 as stated: a second pass changes nothing; after one pass of such a text, a
\* single component included, every component is non-empty and without leading
\* zero unless it is "0", and the separators are those of the input.
C8_AsStated ==
    /\ op = "unexplode_ip_again" => outcome.val = arg.ip
    /\ (op = "unexplode_ip" /\ InClaimedDomain(arg))
       => /\ \A i \in 1..Len(ComponentsOf(outcome.val)) :
                 NoLeadingZero(ComponentsOf(outcome.val)[i])
          /\ SameSeparators(arg, outcome.val)

\* C8, amended: a second pass changes nothing; after one pass of a text of four
\* dot-separated or of two or more colon-separated components every component
\* is non-empty and without leading zero unless it is "0"; any other text (a
\* single component) is returned as it is; the separators are those of the input.
C8_Idempotent ==
    /\ op = "unexplode_ip_again" => outcome.val = arg.ip
    /\ (op = "unexplode_ip" /\ Separated(arg))
       => \A i \in 1..Len(ComponentsOf(outcome.val)) :
              NoLeadingZero(ComponentsOf(outcome.val)[i])
    /\ (op = "unexplode_ip" /\ ~Separated(arg)) => outcome.val = arg
    /\ op = "unexplode_ip" => SameSeparators(arg, outcome.val)

\* a dotted quad with leading zeros, normalised and then normalised again
C8_Witness ==
    /\ op = "unexplode_ip_again"
    /\ Len(split(arg.first, ".")) = 4
    /\ arg.first # arg.ip
    /\ \A i \in 1..4 : split(arg.first, ".")[i] # <<>>

\* C11: for every text that ipaddress takes as an IPv4 or IPv6 address, the
\* "::" writing included, unexplode_ip returns a text that is the same address of
\* the same family, and getixp_by_ip does not fail on the normalised text but
\* goes on to the lookup of that family and its prefix query.
C11_NormalizationPreservesAddress ==
    (op = "getixp_by_ip" /\ ip_address(arg.ip) # NoAddress)
    => /\ ip_address(unexplode_ip(arg.ip)) = ip_address(arg.ip)
       /\ outcome # Raise("ValueError")
       /\ Len(queries) > 0

====
